---- MODULE Spec2Model ----
(***************************************************************************)
(* Acquisition scripts of the ReSpeaker mic-array repository:              *)
(*   src/respeaker/get_gain.py         get_gain()                          *)
(*   src/respeaker/test_directivity.py test_directivity()                  *)
(*   src/lock_doa.py                   lock_doa() and its script body      *)
(* One behaviour is one execution of one of the three programs.  Each      *)
(* program is a single thread; pc is its position.  A KeyboardInterrupt    *)
(* can arrive at any position, a register read or an audio capture can     *)
(* fail.  Times are exact rationals <<numerator, denominator>> in seconds. *)
(***************************************************************************)
EXTENDS Integers, Sequences, FiniteSets, TLC

VARIABLES
    prog,                   \* which program runs
    resolution,             \* test_directivity argument
    seconds_per_rotation,   \* test_directivity argument (seconds)
    sample_duration,        \* test_directivity argument / get_gain SAMPLE_DURATION
    device_present,         \* whether usb.core.find returns a device
    pc,                     \* position of the program
    i,                      \* loop variable of the sweep
    now,                    \* time.time()
    measurement_start,      \* local of the sweep loop
    degrees_per_measurement,\* local, rational
    interval,               \* local, rational
    agc_gain, agc_gain_db, agc_max_gain, agc_desired_level,
    doa_angle, voice_activity,      \* locals read from the Tuning session
    audio_data,             \* samples returned by sounddevice.rec
    measurements,           \* list of measurement dicts
    result,                 \* value returned to the caller
    exc,                    \* exception that reached the caller, or "none"
    csv,                    \* the persisted table
    openSessions,           \* Tuning objects created and not closed
    openCaptures,           \* sounddevice.rec started, wait not returned
    polls,                  \* iterations of the lock_doa loop
    doa_locked,             \* the device's direction-of-arrival lock
    \* history variables
    events,                 \* device events of the run, in order
    t_close,                \* time of the current cycle's tuning.close()
    t_rec,                  \* time of the current cycle's sounddevice.rec
    started,                \* sweep steps started
    interrupted,            \* a KeyboardInterrupt was caught by the sweep
    failed_step,            \* step at which a read or capture failed, or -1
    lookup_done,            \* usb.core.find has been executed
    t_first,                \* time the first sweep step started
    t_done,                 \* time the latest step reached its pacing sleep
    last_over               \* latest step that took longer than interval, or -1

inputs == <<prog, resolution, seconds_per_rotation, sample_duration, device_present>>
locals == <<agc_gain, agc_gain_db, agc_max_gain, agc_desired_level,
            doa_angle, voice_activity, audio_data>>
timing == <<measurement_start, degrees_per_measurement, interval>>
outcome == <<result, exc, csv>>
device == <<openSessions, openCaptures>>
monitor == <<polls, doa_locked>>
cadence == <<t_first, t_done, last_over>>
history == <<t_close, t_rec, started, interrupted, failed_step, lookup_done>>
vars == <<inputs, pc, i, now, timing, locals, measurements, outcome, device,
          monitor, events, history, cadence>>

----------------------------------------------------------------------------
(* Bounds of the model *)
MaxResolution == 3
MaxPolls == 2

(* Input sets *)
Programs == {"get_gain", "test_directivity", "lock_doa"}
Resolutions == -1 .. MaxResolution
RotationTimes == {0, 3}
SampleDurations == {<<0, 1>>, <<1, 2>>, <<1, 1>>}
GainValues == {0, 2}
GainValuesOnce == GainValues \cup {-1}
DoaValues == {90}
VoiceValues == {1}
Buffers == {<<0, 0>>, <<300, -32768>>}
MaxBuf == 2
Samples == {-32768, 0, 200, 32767}
ReadLatencies == {<<1, 20>>}
CaptureLatencies == {<<0, 1>>, <<1, 2>>}

----------------------------------------------------------------------------
(* Exact rational arithmetic standing for Python's float arithmetic *)
Abs(x) == IF x < 0 THEN -x ELSE x

RECURSIVE GCD(_, _)
GCD(a, b) ==
    IF b = 0 THEN a
    ELSE CHOOSE g \in {GCD(y, x % y) : x \in {a}, y \in {b}} : TRUE

\* n / d in lowest terms with a positive denominator, g their gcd
Reduced(n, d, g) ==
    LET s == IF d < 0 THEN -1 ELSE 1
    IN  <<(s * n) \div g, (s * d) \div g>>

\* the quotient n / d; the set constructor makes each argument be
\* evaluated once
Rat(n, d) ==
    CHOOSE r \in {Reduced(x, y, GCD(Abs(x), Abs(y))) : x \in {n}, y \in {d}} :
        TRUE

RAdd(x, y) == Rat(x[1] * y[2] + y[1] * x[2], x[2] * y[2])
RSub(x, y) == Rat(x[1] * y[2] - y[1] * x[2], x[2] * y[2])
RMul(x, y) == Rat(x[1] * y[1], x[2] * y[2])
RDiv(x, y) == Rat(x[1] * y[2], x[2] * y[1])
RLt(x, y) == x[1] * y[2] < y[1] * x[2]
RLe(x, y) == x[1] * y[2] <= y[1] * x[2]
\* Python's float % with a positive modulus m: the result is in [0, m)
RMod(x, m) == Rat(x[1] % (m * x[2]), x[2])

Unset == <<-1, 1>>

----------------------------------------------------------------------------
(* Program constants *)
SETTLE_GAIN == <<1, 10>>        \* time.sleep(0.1)  in get_gain
SETTLE_SWEEP == <<1, 20>>       \* time.sleep(0.05) in test_directivity
SAMPLE_DURATION == <<1, 2>>     \* get_gain's SAMPLE_DURATION = 0.5
POLL_SLEEP == <<1, 1>>          \* time.sleep(1) in lock_doa
RESPEAKER_RATE == 16000
FullCircle == 360
FULL_SCALE == 32768

SettleOf(p) == IF p = "get_gain" THEN SETTLE_GAIN ELSE SETTLE_SWEEP

----------------------------------------------------------------------------
(* Pure computations of the programs *)

\* degrees_per_measurement = 360 / resolution   (resolution # 0)
DegreesPerMeasurement(res) == Rat(FullCircle, res)

\* interval = seconds_per_rotation * (degrees_per_measurement / 360)
Interval(spr, dpm) == RMul(<<spr, 1>>, RDiv(dpm, <<FullCircle, 1>>))

\* expected angle taken at the end of the step instead of its start
ExpectedAngleNext(k, dpm) == RMod(RMul(<<k + 1, 1>>, dpm), FullCircle)

\* expected_angle = (i * degrees_per_measurement) % 360
ExpectedAngle(k, dpm) == RMod(RMul(<<k, 1>>, dpm), FullCircle)

\* int(sample_duration * RESPEAKER_RATE), for sample_duration >= 0
Frames(sd) == (sd[1] * RESPEAKER_RATE) \div sd[2]

\* math.log10 of a rational: a finite value for a positive argument, a
\* ValueError (math domain error) for any other
Log10(x) == IF RLt(<<0, 1>>, x) THEN "finite" ELSE "domain_error"

\* the gain conversion without its guard
AgcGainDbUnguarded(g) == Log10(<<g, 1>>)

\* 20 * math.log10(agc_gain) if agc_gain and agc_gain > 0 else -float('inf')
AgcGainDb(g) == IF g # 0 /\ g > 0 THEN Log10(<<g, 1>>) ELSE "-inf"

\* elapsed = time.time() - measurement_start; remaining = interval - elapsed
Remaining(t, start, iv) == RSub(iv, RSub(t, start))

\* a pacing sleep of the whole interval, whatever the step took
AfterPaceFixed(t, start, iv) == RAdd(t, iv)

\* if remaining > 0: time.sleep(remaining)
AfterPace(t, start, iv) ==
    IF RLt(<<0, 1>>, Remaining(t, start, iv))
    THEN RAdd(t, Remaining(t, start, iv))
    ELSE t

\* a loop that leaves out its last step
LoopStopsEarly(k, res) == k < res - 1

\* for i in range(resolution): whether there is a step for index k
LoopContinues(k, res) == k < res

\* the for statement's next value of i
NextIndex(k) == k + 1

\* time.sleep(d) with the settle delay skipped
AfterSleepNoDelay(t, d) == t

\* time.sleep(d)
AfterSleep(t, d) == RAdd(t, d)

\* tuning.close() that leaves the session open
SessionsAfterCloseLeak(n) == n

\* tuning.close(): the session is released
SessionsAfterClose(n) == n - 1

\* a lookup whose result is never tested
FoundAlways(present) == TRUE

\* mic_array = usb.core.find(...); "if not mic_array" tests its result
Found(present) == present

\* numpy int16 element arithmetic wraps modulo 2^16
Wrap16(x) == ((x + 32768) % 65536) - 32768

RECURSIVE SumSeq(_)
SumSeq(q) == IF q = <<>> THEN 0 ELSE Head(q) + SumSeq(Tail(q))

RECURSIVE MaxSeq(_)
MaxSeq(q) == IF Len(q) = 1 THEN Head(q)
             ELSE LET m == MaxSeq(Tail(q))
                  IN  IF Head(q) > m THEN Head(q) ELSE m

\* np.mean(audio_data**2): the squares are int16, the mean is a float
MeanSquare(buf) ==
    Rat(SumSeq([k \in DOMAIN buf |-> Wrap16(buf[k] * buf[k])]), Len(buf))

\* np.max(np.abs(audio_data)): the absolute values are int16
Peak(buf) == MaxSeq([k \in DOMAIN buf |-> Wrap16(Abs(buf[k]))])

\* 20 * math.log10(x / full_scale) if x > 0 else -float('inf'); rms is
\* sqrt(mean square), positive exactly when the mean square is
RmsDbfs(ms) == IF RLt(<<0, 1>>, ms) THEN Log10(ms) ELSE "-inf"
PeakDbfs(pk) == IF pk > 0 THEN Log10(Rat(pk, FULL_SCALE)) ELSE "-inf"

\* one of the two level conversions raises
LevelsRaise(buf) ==
    \/ RmsDbfs(MeanSquare(buf)) = "domain_error"
    \/ PeakDbfs(Peak(buf)) = "domain_error"

\* the dict appended to measurements; rms_level is kept as its square (the
\* wall-clock 'timestamp' column is not kept: the program never reads it)
Measurement(k, dpm, doa, gain, gaindb, voice, buf) ==
    [measurement_index |-> k,
     expected_angle |-> ExpectedAngle(k, dpm),
     doa_angle |-> doa,
     agc_gain |-> gain,
     agc_gain_db |-> gaindb,
     voice_activity |-> voice,
     rms_level_sq |-> MeanSquare(buf),
     rms_dbfs |-> RmsDbfs(MeanSquare(buf)),
     peak_level |-> Peak(buf),
     peak_dbfs |-> PeakDbfs(Peak(buf))]

\* a table written a second time
CsvWrittenTwice(c, ms) == [writes |-> c.writes + 2, rows |-> ms]

\* df.to_csv(filename, index=False): one file, one row per record in order
CsvAfterSave(c, ms) == [writes |-> c.writes + 1, rows |-> ms]

\* a record put in front of the list
InsertRecord(ms, r) == <<r>> \o ms

\* measurements.append(measurement)
AppendRecord(ms, r) == Append(ms, r)

\* the samples sounddevice.rec delivers for a frame count
Recorded(frames) == IF frames <= 0 THEN {<<>>} ELSE Buffers

\* the same for the single capture of get_gain, drawn from every buffer of up
\* to MaxBuf samples over Samples (a sweep keeps one record per capture, so
\* its captures are drawn from the smaller set)
RecordedOnce(frames) ==
    IF frames <= 0 THEN {<<>>}
    ELSE Buffers \cup UNION {[1 .. n -> Samples] : n \in 1 .. MaxBuf}

----------------------------------------------------------------------------
(* Positions *)
SweepTry == {"td_loop", "td_open", "td_read_gain", "td_read_doa",
             "td_read_voice", "td_close", "td_settle", "td_rec", "td_wait",
             "td_levels", "td_pace"}
SweepOutsideTry == {"td_start", "td_find", "td_save"}
GainPCs == {"gg_find", "gg_open", "gg_read_gain", "gg_read_max",
            "gg_read_level", "gg_read_doa", "gg_read_voice", "gg_close",
            "gg_settle", "gg_rec", "gg_wait", "gg_levels"}
LockTry == {"ld_poll_dir", "ld_poll_voice", "ld_sleep"}
LockOutsideTry == {"ld_find", "ld_open", "ld_lock", "ld_print_dir",
                   "ld_main", "ld_unlock"}
ReadPCs == {"td_read_gain", "td_read_doa", "td_read_voice",
            "gg_read_gain", "gg_read_max", "gg_read_level", "gg_read_doa",
            "gg_read_voice", "ld_print_dir", "ld_poll_dir", "ld_poll_voice"}
CapturePCs == {"td_rec", "td_wait", "gg_rec", "gg_wait"}
Terminal == {"returned", "raised"}

StartPC(p) == CASE p = "get_gain" -> "gg_find"
                [] p = "test_directivity" -> "td_start"
                [] OTHER -> "ld_find"

NoResult == [kind |-> "unset"]
NoneResult == [kind |-> "None"]

Init ==
    /\ prog \in Programs
    /\ device_present \in BOOLEAN
    /\ IF prog = "test_directivity"
       THEN /\ resolution \in Resolutions
            /\ seconds_per_rotation \in RotationTimes
            /\ sample_duration \in SampleDurations
       ELSE /\ resolution = 1
            /\ seconds_per_rotation = 0
            /\ sample_duration = SAMPLE_DURATION
    /\ pc = StartPC(prog)
    /\ i = 0
    /\ now = <<0, 1>>
    /\ measurement_start = Unset
    /\ degrees_per_measurement = Unset
    /\ interval = Unset
    /\ agc_gain = 0 /\ agc_gain_db = "-inf"
    /\ agc_max_gain = 0 /\ agc_desired_level = 0
    /\ doa_angle = 0 /\ voice_activity = 0
    /\ audio_data = <<>>
    /\ measurements = <<>>
    /\ result = NoResult
    /\ exc = "none"
    /\ csv = [writes |-> 0, rows |-> <<>>]
    /\ openSessions = 0
    /\ openCaptures = 0
    /\ polls = 0
    /\ doa_locked = FALSE
    /\ events = <<>>
    /\ t_close = Unset
    /\ t_rec = Unset
    /\ started = 0
    /\ interrupted = FALSE
    /\ failed_step = -1
    /\ lookup_done = FALSE
    /\ t_first = Unset
    /\ t_done = Unset
    /\ last_over = -1

----------------------------------------------------------------------------
(* test_directivity *)

\* lines 34-48: output directory, timing, configuration banner
TdStart ==
    /\ pc = "td_start"
    /\ IF resolution = 0
       THEN /\ exc' = "ZeroDivisionError"
            /\ pc' = "raised"
            /\ UNCHANGED timing
       ELSE /\ degrees_per_measurement' = DegreesPerMeasurement(resolution)
            /\ interval' = Interval(seconds_per_rotation,
                                    DegreesPerMeasurement(resolution))
            /\ pc' = "td_find"
            /\ UNCHANGED <<measurement_start, exc>>
    /\ UNCHANGED <<cadence, inputs, i, now, locals, measurements, result, csv, device,
                   monitor, events, history>>

\* line 65: strftime("%Y-%m-%d %H%:M%S"); "%:" is no directive: the C
\* library either copies it through (glibc) or rejects the format (ValueError)
StrftimeAccepts == {TRUE, FALSE}

\* lines 51-68: device lookup, empty measurement list, run timestamp
TdFind ==
    /\ pc = "td_find"
    /\ lookup_done' = TRUE
    /\ IF ~Found(device_present)
       THEN /\ result' = NoneResult
            /\ pc' = "returned"
            /\ UNCHANGED <<measurements, exc>>
       ELSE /\ measurements' = <<>>
            /\ \E ok \in StrftimeAccepts :
                  IF ok
                  THEN pc' = "td_loop" /\ UNCHANGED exc
                  ELSE pc' = "raised" /\ exc' = "ValueError"
            /\ UNCHANGED result
    /\ UNCHANGED <<cadence, inputs, i, now, timing, locals, csv, device, monitor,
                   events, t_close, t_rec, started, interrupted, failed_step>>

\* lines 71-75: for i in range(resolution); measurement_start
TdLoop ==
    /\ pc = "td_loop"
    /\ IF LoopContinues(i, resolution)
       THEN /\ measurement_start' = now
            /\ started' = started + 1
            /\ t_close' = Unset
            /\ t_rec' = Unset
            /\ t_first' = IF i = 0 THEN now ELSE t_first
            /\ pc' = "td_open"
       ELSE /\ pc' = "td_save"
            /\ UNCHANGED <<measurement_start, started, t_close, t_rec, t_first>>
    /\ UNCHANGED <<inputs, i, now, degrees_per_measurement, interval, locals,
                   measurements, outcome, device, monitor, events, interrupted,
                   failed_step, lookup_done, t_done, last_over>>

\* line 78: tuning = Tuning(mic_array)
TdOpen ==
    /\ pc = "td_open"
    /\ openSessions' = openSessions + 1
    /\ events' = Append(events, "open")
    /\ pc' = "td_read_gain"
    /\ UNCHANGED <<cadence, inputs, i, now, timing, locals, measurements, outcome,
                   openCaptures, monitor, history>>

\* lines 79-80: agc_gain = tuning.read('AGCGAIN'); agc_gain_db
TdReadGain ==
    /\ pc = "td_read_gain"
    /\ \E g \in GainValues, d \in ReadLatencies :
          /\ agc_gain' = g
          /\ now' = RAdd(now, d)
          /\ IF AgcGainDb(g) = "domain_error"
             THEN \* math.log10 raises ValueError: math domain error
                  /\ exc' = "MathDomainError"
                  /\ pc' = "raised"
                  /\ UNCHANGED agc_gain_db
             ELSE /\ agc_gain_db' = AgcGainDb(g)
                  /\ pc' = "td_read_doa"
                  /\ UNCHANGED exc
    /\ events' = Append(events, "read")
    /\ UNCHANGED <<cadence, inputs, i, timing, agc_max_gain, agc_desired_level,
                   doa_angle, voice_activity, audio_data, measurements,
                   result, csv, device, monitor, history>>

\* line 81: doa_angle = tuning.direction
TdReadDoa ==
    /\ pc = "td_read_doa"
    /\ \E a \in DoaValues, d \in ReadLatencies :
          /\ doa_angle' = a
          /\ now' = RAdd(now, d)
    /\ events' = Append(events, "read")
    /\ pc' = "td_read_voice"
    /\ UNCHANGED <<cadence, inputs, i, timing, agc_gain, agc_gain_db, agc_max_gain,
                   agc_desired_level, voice_activity, audio_data, measurements,
                   outcome, device, monitor, history>>

\* line 82: voice_activity = tuning.is_voice
TdReadVoice ==
    /\ pc = "td_read_voice"
    /\ \E v \in VoiceValues, d \in ReadLatencies :
          /\ voice_activity' = v
          /\ now' = RAdd(now, d)
    /\ events' = Append(events, "read")
    /\ pc' = "td_close"
    /\ UNCHANGED <<cadence, inputs, i, timing, agc_gain, agc_gain_db, agc_max_gain,
                   agc_desired_level, doa_angle, audio_data, measurements,
                   outcome, device, monitor, history>>

\* line 83: tuning.close()
TdClose ==
    /\ pc = "td_close"
    /\ openSessions' = SessionsAfterClose(openSessions)
    /\ t_close' = now
    /\ events' = Append(events, "close")
    /\ pc' = "td_settle"
    /\ UNCHANGED <<cadence, inputs, i, now, timing, locals, measurements, outcome,
                   openCaptures, monitor, t_rec, started, interrupted,
                   failed_step, lookup_done>>

\* line 86: time.sleep(0.05)
TdSettle ==
    /\ pc = "td_settle"
    /\ now' = AfterSleep(now, SETTLE_SWEEP)
    /\ events' = Append(events, "settled")
    /\ pc' = "td_rec"
    /\ UNCHANGED <<cadence, inputs, i, timing, locals, measurements, outcome, device,
                   monitor, history>>

\* lines 89-95: audio_data = sounddevice.rec(...)
TdRec ==
    /\ pc = "td_rec"
    /\ openCaptures' = openCaptures + 1
    /\ t_rec' = now
    /\ events' = Append(events, "rec_start")
    /\ pc' = "td_wait"
    /\ UNCHANGED <<cadence, inputs, i, now, timing, locals, measurements, outcome,
                   openSessions, monitor, t_close, started, interrupted,
                   failed_step, lookup_done>>

\* line 96: sounddevice.wait()
TdWait ==
    /\ pc = "td_wait"
    /\ \E buf \in Recorded(Frames(sample_duration)), d \in CaptureLatencies :
          /\ audio_data' = buf
          /\ now' = RAdd(RAdd(now, sample_duration), d)
    /\ openCaptures' = openCaptures - 1
    /\ events' = Append(events, "rec_end")
    /\ pc' = "td_levels"
    /\ UNCHANGED <<cadence, inputs, i, timing, agc_gain, agc_gain_db, agc_max_gain,
                   agc_desired_level, doa_angle, voice_activity, measurements,
                   outcome, openSessions, monitor, history>>

\* lines 99-128: levels, measurement dict, append, progress report
TdLevels ==
    /\ pc = "td_levels"
    /\ IF audio_data = <<>>
       THEN \* np.max of an empty array raises
            /\ exc' = "ValueError"
            /\ pc' = "raised"
            /\ UNCHANGED measurements
       ELSE IF LevelsRaise(audio_data)
       THEN /\ exc' = "MathDomainError"
            /\ pc' = "raised"
            /\ UNCHANGED measurements
       ELSE /\ measurements' = AppendRecord(measurements,
                  Measurement(i, degrees_per_measurement, doa_angle, agc_gain,
                              agc_gain_db, voice_activity, audio_data))
            /\ pc' = "td_pace"
            /\ UNCHANGED exc
    /\ UNCHANGED <<cadence, inputs, i, now, timing, locals, result, csv, device, monitor,
                   events, history>>

\* lines 131-134: sleep for the rest of the interval, next iteration
TdPace ==
    /\ pc = "td_pace"
    /\ now' = AfterPace(now, measurement_start, interval)
    /\ i' = NextIndex(i)
    /\ t_done' = now
    /\ last_over' = IF RLt(Remaining(now, measurement_start, interval), <<0, 1>>)
                    THEN i ELSE last_over
    /\ pc' = "td_loop"
    /\ UNCHANGED <<inputs, timing, locals, measurements, outcome, device,
                   monitor, events, history, t_first>>

\* lines 140-154: DataFrame, to_csv, summary, return df
TdSave ==
    /\ pc = "td_save"
    /\ csv' = CsvAfterSave(csv, measurements)
    /\ result' = [kind |-> "DataFrame", rows |-> measurements]
    /\ pc' = "returned"
    /\ UNCHANGED <<cadence, inputs, i, now, timing, locals, measurements, exc, device,
                   monitor, events, history>>

----------------------------------------------------------------------------
(* Asynchronous events *)

\* what a KeyboardInterrupt does at a position: the sweep's handler
\* (test_directivity lines 136-137) and the polling loop's handler
\* (lock_doa lines 17-18) catch it inside their try blocks only
InterruptTarget(p) ==
    CASE p \in SweepTry -> "td_save"
      [] p \in LockTry -> "ld_main"
      [] OTHER -> "raised"

\* sounddevice closes the stream when wait() is left by an exception; an
\* interrupt between rec() and wait() leaves it running
CapturesAfterAbort(n) == {n, 0}

KeyboardInterrupt ==
    /\ pc \notin Terminal
    /\ pc' = InterruptTarget(pc)
    /\ exc' = IF InterruptTarget(pc) = "raised" THEN "KeyboardInterrupt" ELSE exc
    /\ interrupted' = (interrupted \/ pc \in SweepTry)
    /\ openCaptures' \in CapturesAfterAbort(openCaptures)
    /\ UNCHANGED <<cadence, inputs, i, now, timing, locals, measurements, result, csv,
                   openSessions, monitor, events, t_close, t_rec, started,
                   failed_step, lookup_done>>

\* a failed device call that is swallowed and the step skipped
FailureTargetSkip(p) == IF p \in SweepTry THEN "td_pace" ELSE "raised"

\* where a failed device call leaves the program: nothing catches it
FailureTarget(p) == "raised"

\* a register read fails with a transport error
ReadFails ==
    /\ pc \in ReadPCs
    /\ pc' = FailureTarget(pc)
    /\ exc' = "DeviceIOError"
    /\ failed_step' = i
    /\ UNCHANGED <<cadence, inputs, i, now, timing, locals, measurements, result, csv,
                   device, monitor, events, t_close, t_rec, started, interrupted,
                   lookup_done>>

\* sounddevice.rec or sounddevice.wait fails
CaptureFails ==
    /\ pc \in CapturePCs
    /\ pc' = FailureTarget(pc)
    /\ exc' = "AudioError"
    /\ failed_step' = i
    /\ openCaptures' = 0
    /\ UNCHANGED <<cadence, inputs, i, now, timing, locals, measurements, result, csv,
                   openSessions, monitor, events, t_close, t_rec, started,
                   interrupted, lookup_done>>

----------------------------------------------------------------------------
(* get_gain *)

\* the dict get_gain returns
GainInfo(gain, gaindb, maxgain, level, doa, voice, buf) ==
    [kind |-> "dict",
     agc_gain |-> gain,
     agc_gain_db |-> gaindb,
     agc_max_gain |-> maxgain,
     agc_desired_level |-> level,
     doa_angle |-> doa,
     voice_activity |-> voice,
     rms_level_sq |-> MeanSquare(buf),
     rms_dbfs |-> RmsDbfs(MeanSquare(buf)),
     peak_level |-> Peak(buf),
     peak_dbfs |-> PeakDbfs(Peak(buf))]

\* lines 12-22: device lookup
GgFind ==
    /\ pc = "gg_find"
    /\ lookup_done' = TRUE
    /\ IF ~Found(device_present)
       THEN /\ result' = NoneResult
            /\ pc' = "returned"
       ELSE /\ pc' = "gg_open"
            /\ UNCHANGED result
    /\ UNCHANGED <<cadence, inputs, i, now, timing, locals, measurements, exc, csv,
                   device, monitor, events, t_close, t_rec, started,
                   interrupted, failed_step>>

\* line 25: tuning = Tuning(mic_array)
GgOpen ==
    /\ pc = "gg_open"
    /\ openSessions' = openSessions + 1
    /\ events' = Append(events, "open")
    /\ pc' = "gg_read_gain"
    /\ UNCHANGED <<cadence, inputs, i, now, timing, locals, measurements, outcome,
                   openCaptures, monitor, history>>

\* lines 28-29: agc_gain, agc_gain_db
GgReadGain ==
    /\ pc = "gg_read_gain"
    /\ \E g \in GainValuesOnce, d \in ReadLatencies :
          /\ agc_gain' = g
          /\ now' = RAdd(now, d)
          /\ IF AgcGainDb(g) = "domain_error"
             THEN \* math.log10 raises ValueError: math domain error
                  /\ exc' = "MathDomainError"
                  /\ pc' = "raised"
                  /\ UNCHANGED agc_gain_db
             ELSE /\ agc_gain_db' = AgcGainDb(g)
                  /\ pc' = "gg_read_max"
                  /\ UNCHANGED exc
    /\ events' = Append(events, "read")
    /\ UNCHANGED <<cadence, inputs, i, timing, agc_max_gain, agc_desired_level,
                   doa_angle, voice_activity, audio_data, measurements,
                   result, csv, device, monitor, history>>

\* line 30: agc_max_gain = tuning.read('AGCMAXGAIN')
GgReadMax ==
    /\ pc = "gg_read_max"
    /\ \E g \in GainValues, d \in ReadLatencies :
          /\ agc_max_gain' = g
          /\ now' = RAdd(now, d)
    /\ events' = Append(events, "read")
    /\ pc' = "gg_read_level"
    /\ UNCHANGED <<cadence, inputs, i, timing, agc_gain, agc_gain_db,
                   agc_desired_level, doa_angle, voice_activity, audio_data,
                   measurements, outcome, device, monitor, history>>

\* line 31: agc_desired_level = tuning.read('AGCDESIREDLEVEL')
GgReadLevel ==
    /\ pc = "gg_read_level"
    /\ \E g \in GainValues, d \in ReadLatencies :
          /\ agc_desired_level' = g
          /\ now' = RAdd(now, d)
    /\ events' = Append(events, "read")
    /\ pc' = "gg_read_doa"
    /\ UNCHANGED <<cadence, inputs, i, timing, agc_gain, agc_gain_db, agc_max_gain,
                   doa_angle, voice_activity, audio_data, measurements,
                   outcome, device, monitor, history>>

\* line 32: doa_angle = tuning.direction
GgReadDoa ==
    /\ pc = "gg_read_doa"
    /\ \E a \in DoaValues, d \in ReadLatencies :
          /\ doa_angle' = a
          /\ now' = RAdd(now, d)
    /\ events' = Append(events, "read")
    /\ pc' = "gg_read_voice"
    /\ UNCHANGED <<cadence, inputs, i, timing, agc_gain, agc_gain_db, agc_max_gain,
                   agc_desired_level, voice_activity, audio_data, measurements,
                   outcome, device, monitor, history>>

\* line 33: voice_activity = tuning.is_voice
GgReadVoice ==
    /\ pc = "gg_read_voice"
    /\ \E v \in VoiceValues, d \in ReadLatencies :
          /\ voice_activity' = v
          /\ now' = RAdd(now, d)
    /\ events' = Append(events, "read")
    /\ pc' = "gg_close"
    /\ UNCHANGED <<cadence, inputs, i, timing, agc_gain, agc_gain_db, agc_max_gain,
                   agc_desired_level, doa_angle, audio_data, measurements,
                   outcome, device, monitor, history>>

\* line 37: tuning.close()
GgClose ==
    /\ pc = "gg_close"
    /\ openSessions' = SessionsAfterClose(openSessions)
    /\ t_close' = now
    /\ events' = Append(events, "close")
    /\ pc' = "gg_settle"
    /\ UNCHANGED <<cadence, inputs, i, now, timing, locals, measurements, outcome,
                   openCaptures, monitor, t_rec, started, interrupted,
                   failed_step, lookup_done>>

\* lines 40-49: time.sleep(0.1), report of the tuning parameters
GgSettle ==
    /\ pc = "gg_settle"
    /\ now' = AfterSleep(now, SETTLE_GAIN)
    /\ events' = Append(events, "settled")
    /\ pc' = "gg_rec"
    /\ UNCHANGED <<cadence, inputs, i, timing, locals, measurements, outcome, device,
                   monitor, history>>

\* lines 52-58: audio_data = sounddevice.rec(...)
GgRec ==
    /\ pc = "gg_rec"
    /\ openCaptures' = openCaptures + 1
    /\ t_rec' = now
    /\ events' = Append(events, "rec_start")
    /\ pc' = "gg_wait"
    /\ UNCHANGED <<cadence, inputs, i, now, timing, locals, measurements, outcome,
                   openSessions, monitor, t_close, started, interrupted,
                   failed_step, lookup_done>>

\* line 59: sounddevice.wait()
GgWait ==
    /\ pc = "gg_wait"
    /\ \E buf \in RecordedOnce(Frames(SAMPLE_DURATION)), d \in CaptureLatencies :
          /\ audio_data' = buf
          /\ now' = RAdd(RAdd(now, SAMPLE_DURATION), d)
    /\ openCaptures' = openCaptures - 1
    /\ events' = Append(events, "rec_end")
    /\ pc' = "gg_levels"
    /\ UNCHANGED <<cadence, inputs, i, timing, agc_gain, agc_gain_db, agc_max_gain,
                   agc_desired_level, doa_angle, voice_activity, measurements,
                   outcome, openSessions, monitor, history>>

\* lines 62-91: levels, report, return of the dict
GgLevels ==
    /\ pc = "gg_levels"
    /\ IF LevelsRaise(audio_data)
       THEN /\ exc' = "MathDomainError"
            /\ pc' = "raised"
            /\ UNCHANGED result
       ELSE /\ result' = GainInfo(agc_gain, agc_gain_db, agc_max_gain,
                                  agc_desired_level, doa_angle,
                                  voice_activity, audio_data)
            /\ pc' = "returned"
            /\ UNCHANGED exc
    /\ UNCHANGED <<cadence, inputs, i, now, timing, locals, measurements, csv,
                   device, monitor, events, history>>

----------------------------------------------------------------------------
(* lock_doa, run as a script *)

\* what the bare attribute references Mic_tuning.lock_doa and
\* Mic_tuning.unlock_doa do to the device's lock
LockDoa(locked) == TRUE
UnlockDoa(locked) == FALSE

\* lines 5, 22, 7-8: dev = usb.core.find(...); lock_doa(angle=0); if dev
LdFind ==
    /\ pc = "ld_find"
    /\ lookup_done' = TRUE
    /\ pc' = IF Found(device_present) THEN "ld_open" ELSE "ld_main"
    /\ UNCHANGED <<cadence, inputs, i, now, timing, locals, measurements, outcome,
                   device, monitor, events, t_close, t_rec, started,
                   interrupted, failed_step>>

\* line 9: Mic_tuning = Tuning(dev)
LdOpen ==
    /\ pc = "ld_open"
    /\ openSessions' = openSessions + 1
    /\ events' = Append(events, "open")
    /\ pc' = "ld_lock"
    /\ UNCHANGED <<cadence, inputs, i, now, timing, locals, measurements, outcome,
                   openCaptures, monitor, history>>

\* line 10: Mic_tuning.lock_doa
LdLock ==
    /\ pc = "ld_lock"
    /\ doa_locked' = LockDoa(doa_locked)
    /\ pc' = "ld_print_dir"
    /\ UNCHANGED <<cadence, inputs, i, now, timing, locals, measurements, outcome,
                   device, polls, events, history>>

\* line 11: print(Mic_tuning.direction), before the try block
LdPrintDir ==
    /\ pc = "ld_print_dir"
    /\ \E a \in DoaValues : doa_angle' = a
    /\ events' = Append(events, "read")
    /\ pc' = "ld_poll_dir"
    /\ UNCHANGED <<cadence, inputs, i, now, timing, agc_gain, agc_gain_db,
                   agc_max_gain, agc_desired_level, voice_activity, audio_data,
                   measurements, outcome, device, monitor, history>>

\* line 14: print(Mic_tuning.direction)
LdPollDir ==
    /\ pc = "ld_poll_dir"
    /\ polls < MaxPolls
    /\ \E a \in DoaValues : doa_angle' = a
    /\ events' = Append(events, "read")
    /\ pc' = "ld_poll_voice"
    /\ UNCHANGED <<cadence, inputs, i, now, timing, agc_gain, agc_gain_db,
                   agc_max_gain, agc_desired_level, voice_activity, audio_data,
                   measurements, outcome, device, monitor, history>>

\* line 15: print(Mic_tuning.is_voice)
LdPollVoice ==
    /\ pc = "ld_poll_voice"
    /\ \E v \in VoiceValues : voice_activity' = v
    /\ events' = Append(events, "read")
    /\ pc' = "ld_sleep"
    /\ UNCHANGED <<cadence, inputs, i, now, timing, agc_gain, agc_gain_db,
                   agc_max_gain, agc_desired_level, doa_angle, audio_data,
                   measurements, outcome, device, monitor, history>>

\* line 16: time.sleep(1)
LdSleep ==
    /\ pc = "ld_sleep"
    /\ now' = AfterSleep(now, POLL_SLEEP)
    /\ polls' = polls + 1
    /\ pc' = "ld_poll_dir"
    /\ UNCHANGED <<cadence, inputs, i, timing, locals, measurements, outcome, device,
                   doa_locked, events, history>>

\* lines 24-26: if KeyboardInterrupt (always true): if dev: Tuning(dev)
LdMain ==
    /\ pc = "ld_main"
    /\ IF device_present
       THEN /\ openSessions' = openSessions + 1
            /\ events' = Append(events, "open")
            /\ pc' = "ld_unlock"
       ELSE /\ pc' = "returned"
            /\ UNCHANGED <<openSessions, events>>
    /\ UNCHANGED <<cadence, inputs, i, now, timing, locals, measurements, outcome,
                   openCaptures, monitor, history>>

\* line 27: Mic_tuning.unlock_doa
LdUnlock ==
    /\ pc = "ld_unlock"
    /\ doa_locked' = UnlockDoa(doa_locked)
    /\ pc' = "returned"
    /\ UNCHANGED <<cadence, inputs, i, now, timing, locals, measurements, outcome,
                   device, polls, events, history>>

----------------------------------------------------------------------------
Next ==
    \/ TdStart \/ TdFind \/ TdLoop \/ TdOpen \/ TdReadGain \/ TdReadDoa
    \/ TdReadVoice \/ TdClose \/ TdSettle \/ TdRec \/ TdWait \/ TdLevels
    \/ TdPace \/ TdSave
    \/ GgFind \/ GgOpen \/ GgReadGain \/ GgReadMax \/ GgReadLevel
    \/ GgReadDoa \/ GgReadVoice \/ GgClose \/ GgSettle \/ GgRec \/ GgWait
    \/ GgLevels
    \/ LdFind \/ LdOpen \/ LdLock \/ LdPrintDir \/ LdPollDir \/ LdPollVoice
    \/ LdSleep \/ LdMain \/ LdUnlock
    \/ KeyboardInterrupt \/ ReadFails \/ CaptureFails

Spec == Init /\ [][Next]_vars

\* the steps of the programs themselves: a single thread that always goes
\* on to its next statement as long as its device calls return or fail
Steps ==
    \/ TdStart \/ TdFind \/ TdLoop \/ TdOpen \/ TdReadGain \/ TdReadDoa
    \/ TdReadVoice \/ TdClose \/ TdSettle \/ TdRec \/ TdWait \/ TdLevels
    \/ TdPace \/ TdSave
    \/ GgFind \/ GgOpen \/ GgReadGain \/ GgReadMax \/ GgReadLevel
    \/ GgReadDoa \/ GgReadVoice \/ GgClose \/ GgSettle \/ GgRec \/ GgWait
    \/ GgLevels
    \/ LdFind \/ LdOpen \/ LdLock \/ LdPrintDir \/ LdPollDir \/ LdPollVoice
    \/ LdSleep \/ LdMain \/ LdUnlock

FairSpec == Init /\ [][Next]_vars /\ WF_vars(Steps)

----------------------------------------------------------------------------
(* Properties *)

Acquiring == prog \in {"get_gain", "test_directivity"}
Sweep == prog = "test_directivity"

\* the device events of one acquisition cycle, in order
CycleEvents(p) ==
    IF p = "get_gain"
    THEN <<"open", "read", "read", "read", "read", "read", "close",
           "settled", "rec_start", "rec_end">>
    ELSE <<"open", "read", "read", "read", "close", "settled", "rec_start",
           "rec_end">>

\* C1: in get_gain and test_directivity at most one Tuning session and at
\* most one audio capture is open at any instant, and never both at once.
C1_Exclusive ==
    Acquiring =>
        /\ openSessions <= 1
        /\ openCaptures <= 1
        /\ ~(openSessions > 0 /\ openCaptures > 0)

\* a capture is open in the second step of a sweep
C1_Witness == Sweep /\ i = 1 /\ openCaptures = 1 /\ pc = "td_wait"

\* C2: every acquisition cycle runs reads, close, the whole settle delay,
\* capture start, capture end, in this order; the capture starts no earlier
\* than the settle delay after the close; a session is never open while a
\* capture is; the samples of a record are captured strictly after its
\* session was closed.
C2_CycleOrder ==
    Acquiring =>
        /\ \A k \in 1 .. Len(events) :
              events[k] = CycleEvents(prog)[((k - 1) % Len(CycleEvents(prog))) + 1]
        /\ (t_rec # Unset =>
              /\ t_close # Unset
              /\ RLe(RAdd(t_close, SettleOf(prog)), t_rec))
        /\ (openSessions > 0 => openCaptures = 0)
        /\ (pc \in {"td_pace", "gg_levels"} =>
              /\ t_rec # Unset
              /\ RLt(t_close, t_rec)
              /\ Len(events) % Len(CycleEvents(prog)) = 0)

\* the second record of a sweep has just been appended
C2_Witness == Sweep /\ pc = "td_pace" /\ i = 1 /\ Len(measurements) = 2

\* resolution > 0, seconds_per_rotation > 0, 0 < sample_duration < interval
ValidConfig ==
    /\ resolution > 0
    /\ seconds_per_rotation > 0
    /\ RLt(<<0, 1>>, sample_duration)
    /\ RLt(sample_duration, Rat(seconds_per_rotation, resolution))

\* C3: when get_gain, test_directivity or lock_doa has returned or raised,
\* no Tuning session it opened is still open.
FunctionLeft ==
    \/ pc \in Terminal
    \/ prog = "lock_doa" /\ pc \in {"ld_main", "ld_unlock"}

C3_SessionReleased == FunctionLeft => openSessions = 0

\* C4: the number of records of a sweep equals the number of steps started
\* (an interrupt never preempts the step in progress).
C4_StepsComplete ==
    (Sweep /\ ValidConfig /\ pc = "returned" /\ result.kind = "DataFrame") =>
        Len(result.rows) = started

\* the mark a result carries when the sweep ended early
EarlyTermination(r) ==
    "early_termination" \in DOMAIN r /\ r.early_termination = TRUE

\* C5: a cancelled sweep returns without an exception, with every record
\* collected so far, and its result is marked early-termination.
C5_CancelledMarked ==
    (Sweep /\ ValidConfig /\ interrupted /\ pc = "returned") =>
        /\ exc = "none"
        /\ result.kind = "DataFrame"
        /\ result.rows = measurements
        /\ EarlyTermination(result)

\* C6: a sweep that failed at step k has persisted a table of exactly the k
\* records of the completed steps.
C6_PartialPersisted ==
    (Sweep /\ ValidConfig /\ failed_step >= 0 /\ pc \in Terminal) =>
        /\ Len(measurements) = failed_step
        /\ csv.writes = 1
        /\ csv.rows = measurements

\* C7: with an invalid configuration test_directivity performs no
\* acquisition step and appends no record.
C7_ConfigValidated ==
    (Sweep /\ ~ValidConfig) =>
        /\ events = <<>>
        /\ measurements = <<>>
        /\ openSessions = 0

\* C8: a sweep of resolution R >= 1 that completes returns R records, record
\* k with index k and expected angle (k * 360 / R) mod 360, paced at
\* seconds_per_rotation / R; resolution 36 at 90 s gives 2.5 s and
\* 0, 10, ..., 350.
C8_CompletedSweep ==
    /\ (Sweep /\ pc = "returned" /\ result.kind = "DataFrame" /\ ~interrupted
           /\ resolution >= 1) =>
          /\ Len(result.rows) = resolution
          /\ \A k \in 0 .. resolution - 1 :
                /\ result.rows[k + 1].measurement_index = k
                /\ result.rows[k + 1].expected_angle
                      = RMod(Rat(k * 360, resolution), 360)
          /\ interval = Rat(seconds_per_rotation, resolution)
    /\ (pc = "td_start" =>
          /\ Interval(90, DegreesPerMeasurement(36)) = <<5, 2>>
          /\ \A k \in 0 .. 35 :
                ExpectedAngle(k, DegreesPerMeasurement(36)) = <<10 * k, 1>>)

\* a sweep of three steps has completed
C8_Witness ==
    /\ Sweep /\ pc = "returned" /\ result.kind = "DataFrame" /\ ~interrupted
    /\ resolution = 3 /\ Len(result.rows) = 3

\* C9: once a register read or a capture has failed, no session is opened,
\* no register is read and no capture is started.
C9_NoOpAfterFailure ==
    [][failed_step >= 0 =>
          /\ events' = events
          /\ openSessions' = openSessions
          /\ openCaptures' = openCaptures
          /\ measurements' = measurements]_vars

\* a read or capture has failed in the second step of a sweep
C9_Witness == Sweep /\ failed_step = 1 /\ pc = "raised" /\ exc = "AudioError"

\* C10: when the lookup finds no device, get_gain and test_directivity
\* return None without raising, having opened no session, read no register,
\* started no capture and produced no record.
C10_DeviceAbsent ==
    (Acquiring /\ lookup_done /\ ~device_present) =>
        /\ pc = "returned"
        /\ result = NoneResult
        /\ exc = "none"
        /\ events = <<>>
        /\ openSessions = 0
        /\ openCaptures = 0
        /\ measurements = <<>>
        /\ csv.writes = 0

\* test_directivity has returned after a lookup that found nothing
C10_Witness ==
    Sweep /\ lookup_done /\ ~device_present /\ pc = "returned"

\* how far behind the fixed schedule of first start + k * interval a step
\* starting at time t is
Lag(t, k) == RSub(t, RAdd(t_first, RMul(<<k, 1>>, interval)))

\* C11: after a step that overran the interval, a later step that itself
\* stayed within the interval is followed by a start that is back on the
\* schedule of first start + i * interval, or at least closer to it than the
\* start before: the delay of the overrun is not carried along.
C11_DriftCorrected ==
    (/\ Sweep /\ ValidConfig
     /\ pc = "td_loop" /\ i < resolution
     /\ last_over >= 0 /\ last_over < i - 1) =>
        \/ Lag(now, i) = <<0, 1>>
        \/ RLt(Lag(now, i), Lag(measurement_start, i - 1))

\* C16: the pacing sleep lasts max(0, interval - elapsed): the next step never
\* starts before the previous start plus interval, starts exactly then when
\* the step took no longer than interval, and starts at once when it took
\* longer.
C16_PacingSleep ==
    (Sweep /\ pc = "td_loop" /\ i >= 1) =>
        /\ RLe(RAdd(measurement_start, interval), now)
        /\ IF RLe(RSub(t_done, measurement_start), interval)
           THEN now = RAdd(measurement_start, interval)
           ELSE now = t_done

\* a sweep whose first step overran the interval and whose second did not
C16_Witness ==
    /\ Sweep /\ ValidConfig /\ pc = "td_loop" /\ i = 2
    /\ last_over = 0
    /\ RLt(<<0, 1>>, interval)

\* the levels of a capture have just been computed from audio_data: by
\* get_gain for the dict it returns, by a sweep step for its record
HasLevels ==
    \/ prog = "get_gain" /\ pc = "returned" /\ result.kind = "dict"
    \/ Sweep /\ pc = "td_pace"
LatestLevels == IF Sweep THEN measurements[Len(measurements)] ELSE result

\* the mean of the squares and the largest magnitude in unbounded integers
TrueMeanSquare(buf) == Rat(SumSeq([k \in DOMAIN buf |-> buf[k] * buf[k]]), Len(buf))
TruePeak(buf) == MaxSeq([k \in DOMAIN buf |-> Abs(buf[k])])

\* C12: for every non-empty buffer the stored peak is not negative and the
\* stored rms lies between 0 and the peak (stated on the squares: the mean
\* square is between 0 and the squared peak).
C12_LevelsOrdered ==
    (HasLevels /\ audio_data # <<>>) =>
        /\ LatestLevels.peak_level >= 0
        /\ RLe(<<0, 1>>, LatestLevels.rms_level_sq)
        /\ RLe(LatestLevels.rms_level_sq,
               <<LatestLevels.peak_level * LatestLevels.peak_level, 1>>)

\* C13: the stored peak is the largest |sample| of the buffer (32768 for a
\* sample of -32768) and the stored mean square is the mean of the squares,
\* neither wrapped to 16 bits.
C13_LevelsExact ==
    (HasLevels /\ audio_data # <<>>) =>
        /\ LatestLevels.peak_level = TruePeak(audio_data)
        /\ LatestLevels.rms_level_sq = TrueMeanSquare(audio_data)

\* every sample of the buffer is zero
Silent(buf) == buf # <<>> /\ \A k \in DOMAIN buf : buf[k] = 0

\* C14: no decibel conversion raises a domain error; the levels of an
\* all-zero buffer are rms 0 and peak 0 with both dBFS values minus
\* infinity, and a gain that is zero or negative gives agc_gain_db minus
\* infinity, in a record that the acquisition did produce.
C14_NoDomainError ==
    Acquiring =>
        /\ exc # "MathDomainError"
        /\ (HasLevels =>
              /\ (LatestLevels.agc_gain <= 0 =>
                    LatestLevels.agc_gain_db = "-inf")
              /\ (Silent(audio_data) =>
                    /\ LatestLevels.rms_level_sq = <<0, 1>>
                    /\ LatestLevels.peak_level = 0
                    /\ LatestLevels.rms_dbfs = "-inf"
                    /\ LatestLevels.peak_dbfs = "-inf"))

\* get_gain has returned its dict for a negative gain and a silent buffer
C14_Witness ==
    /\ prog = "get_gain" /\ pc = "returned" /\ result.kind = "dict"
    /\ result.agc_gain < 0
    /\ Silent(audio_data)

\* the records collected so far are the first records of the full sweep
RecordsArePrefix ==
    /\ Len(measurements) <= resolution
    /\ \A j \in 1 .. Len(measurements) :
          /\ measurements[j].measurement_index = j - 1
          /\ measurements[j].expected_angle
                = RMod(Rat((j - 1) * 360, resolution), 360)
          /\ (j > 1 => RLe(measurements[j - 1].expected_angle,
                           measurements[j].expected_angle))

\* C15: once a sweep has started its first step, the list of records is at
\* every point a prefix of the full sweep (k <= resolution records, record j
\* with index j and expected angle (j * 360 / resolution) mod 360, angles
\* non-decreasing), and every step leaves the list alone or appends one
\* record at its end.
C15_RecordsPrefix ==
    /\ []((Sweep /\ started >= 1) => RecordsArePrefix)
    /\ [][Sweep =>
            \/ measurements' = measurements
            \/ /\ Len(measurements') = Len(measurements) + 1
               /\ SubSeq(measurements', 1, Len(measurements)) = measurements]_vars

\* the third step of a sweep is capturing, two records are in the list
C15_Witness ==
    /\ Sweep /\ resolution = 3 /\ pc = "td_wait"
    /\ Len(measurements) = 2

\* the sweep has ended by completing or by being cancelled in its loop
CompletedOrCancelled ==
    Sweep /\ pc = "returned" /\ result.kind = "DataFrame"

Completed == pc = "returned" /\ ~interrupted
Cancelled == pc \in Terminal /\ (interrupted \/ exc = "KeyboardInterrupt")
Failed ==
    /\ pc = "raised"
    /\ exc \in {"DeviceIOError", "AudioError", "ValueError",
                "MathDomainError", "ZeroDivisionError"}

\* C18: a sweep with a valid configuration and a present device terminates
\* when every device call returns or fails; it then is in exactly one of
\* Completed, Cancelled and Failed, Completed exactly when resolution
\* records were collected without cancellation or failure; and nothing
\* changes once a terminal state is reached.
C18_Terminates ==
    /\ (Sweep /\ ValidConfig /\ device_present) ~> (pc \in Terminal)
    /\ []((Sweep /\ ValidConfig /\ device_present /\ pc \in Terminal) =>
            /\ Completed \/ Cancelled \/ Failed
            /\ ~(Completed /\ Cancelled)
            /\ ~(Completed /\ Failed)
            /\ ~(Cancelled /\ Failed)
            /\ (Completed <=>
                  /\ Len(measurements) = resolution
                  /\ ~Cancelled
                  /\ ~Failed))
    /\ [][(Sweep /\ pc \in Terminal) => UNCHANGED vars]_vars

\* a sweep cancelled when its last record was already collected
C18_Witness ==
    /\ Sweep /\ ValidConfig /\ device_present
    /\ Cancelled /\ pc = "returned"
    /\ Len(measurements) = resolution

\* lock_doa runs with the device present and has opened its session
Monitoring == prog = "lock_doa" /\ device_present /\ events # <<>>

\* C19: in the monitoring mode the direction lock is engaged before the
\* first direction poll and during every poll of the loop, it is released
\* once the script has ended after an interrupt, and no interrupt, wherever
\* it arrives, lets an exception reach the top level.
C19_LockAndInterrupt ==
    Monitoring =>
        /\ (pc \in LockTry \cup {"ld_print_dir"} => doa_locked)
        /\ (pc = "returned" => ~doa_locked)
        /\ exc = "none"
        /\ pc # "raised"
====
